---- MODULE Spec2Model ----
(***************************************************************************)
(* Model of the inner-monologue batch generator (src/main.py and           *)
(* src/kimi_api.py): the two-stage Task Unit (process_sentence), the       *)
(* response parser (extract_json), the checkpoint store (save_checkpoint,  *)
(* load_checkpoint), the batch orchestrator over a bounded worker pool     *)
(* (process_sentences_concurrently), the result sink (save_results) and    *)
(* the operator's modes (main).                                            *)
(*                                                                         *)
(* Strings whose characters matter (narrative texts, the checkpoint file)  *)
(* are sequences of one-character strings.  A Model Client reply is a      *)
(* sequence of lexical tokens, so that the greedy brace search and the     *)
(* JSON decoding of extract_json are computed, not assumed.  Tables on     *)
(* disk are sequences of rows (pandas' CSV reading and writing is an       *)
(* external collaborator).                                                 *)
(***************************************************************************)
EXTENDS Integers, Sequences, FiniteSets, TLC

\* ------------------------------------------------------------------ bounds
\* Longest source dataset (rows of the source CSV).
MaxLen == 2
\* Number of operator invocations (runs of main) in one behaviour.
MaxRuns == 2
\* Longest narrative text of the escaping law's inputs.
MaxTextLen == 4
\* Largest Index of the checkpoint round trip's inputs.
MaxIndex == 11
\* Largest Checkpoint Set of the checkpoint round trip's inputs.
MaxSetSize == 3
\* Sentences of the large batch beyond the number of workers.
PoolExtra == 1
\* Invocations of main over the dataset of the retry scenario.
RetryRuns == 3

\* ------------------------------------------------------- program constants
MAX_WORKERS == 5
MODEL_NAME == "kimi-latest"
\* The row filter of mode 1: df[df["权重"] == 3].
WEIGHT == 3

\* -------------------------------------------------------------- characters
NL == "\n"
BS == "\\"
COMMA == ","
\* The alphabet of narrative texts: a letter, the letter n, a literal newline
\* and a literal backslash.
TextChars == {"a", "n", NL, BS}
Whitespace == {" ", NL}

\* A JSON value held by a decoded object: a string (isinstance(value, str))
\* or a number.
Str(s) == [t |-> "str", v |-> s]
Num(s) == [t |-> "num", v |-> s]

\* ------------------------------------------------------------- str.replace
RECURSIVE IsPrefix(_, _)
IsPrefix(p, s) ==
    IF p = <<>> THEN TRUE
    ELSE IF s = <<>> THEN FALSE
    ELSE Head(p) = Head(s) /\ IsPrefix(Tail(p), Tail(s))

RECURSIVE Drop(_, _)
Drop(s, k) == IF k = 0 \/ s = <<>> THEN s ELSE Drop(Tail(s), k - 1)

\* Python's s.replace(old, new) for a non-empty old: leftmost, non-overlapping.
RECURSIVE Replace(_, _, _)
Replace(s, old, new) ==
    IF s = <<>> THEN <<>>
    ELSE IF IsPrefix(old, s) THEN new \o Replace(Drop(s, Len(old)), old, new)
    ELSE <<Head(s)>> \o Replace(Tail(s), old, new)

\* The value is a string holding a literal newline.
HasNewline(value) == value.t = "str" /\ \E i \in 1..Len(value.v) : value.v[i] = NL

\* clean_value: value.replace("\n", "\\n") for a string, the value itself
\* otherwise.
clean_value(value) ==
    IF value.t = "str" THEN Str(Replace(value.v, <<NL>>, <<BS, "n">>)) ELSE value

\* The reverse of the escape, as the escaping law states it: every
\* two-character sequence backslash-n becomes a literal newline.
unescape(value) ==
    IF value.t = "str" THEN Str(Replace(value.v, <<BS, "n">>, <<NL>>)) ELSE value

\* ------------------------------------------------------------ small helpers
Min(S) == CHOOSE x \in S : \A y \in S : x <= y
Max(S) == CHOOSE x \in S : \A y \in S : x >= y

\* str.strip(): leading and trailing elements of ws removed.
RECURSIVE LStrip(_, _)
LStrip(s, ws) == IF s # <<>> /\ Head(s) \in ws THEN LStrip(Tail(s), ws) ELSE s

RECURSIVE RStrip(_, _)
RStrip(s, ws) ==
    IF s # <<>> /\ s[Len(s)] \in ws THEN RStrip(SubSeq(s, 1, Len(s) - 1), ws) ELSE s

Strip(s, ws) == RStrip(LStrip(s, ws), ws)

\* The orders in which the elements of a set can be iterated.
Orderings(S) ==
    {f \in [1..Cardinality(S) -> S] : \A i, j \in 1..Cardinality(S) : f[i] = f[j] => i = j}

\* ------------------------------------------------ Model Client replies, JSON
\* A reply is a sequence of tokens: an opening brace, a closing brace, a comma,
\* a member "key": value, whitespace, or any other text.
FIELD == "inner_monologue"
NoVal == Str(<<>>)
LB == [tok |-> "{", key |-> "", val |-> NoVal]
RB == [tok |-> "}", key |-> "", val |-> NoVal]
CM == [tok |-> ",", key |-> "", val |-> NoVal]
WS == [tok |-> " ", key |-> "", val |-> NoVal]
TXT == [tok |-> "text", key |-> "", val |-> NoVal]
Pair(k, v) == [tok |-> "pair", key |-> k, val |-> v]

EmptyDict == [k \in {} |-> NoVal]
None == [none |-> TRUE, obj |-> EmptyDict]
Some(d) == [none |-> FALSE, obj |-> d]

\* re.search(r'\{.*\}', response, re.DOTALL): from the first opening brace
\* that has a closing brace after it to the last closing brace (greedy).
re_search(response) ==
    LET rbs == {j \in 1..Len(response) : response[j].tok = "}"}
        lbs == {i \in 1..Len(response) :
                    response[i].tok = "{" /\ \E j \in rbs : j > i}
    IN IF lbs = {} THEN [found |-> FALSE, group |-> <<>>]
       ELSE [found |-> TRUE, group |-> SubSeq(response, Min(lbs), Max(rbs))]

\* json.loads of a text that starts with "{" and ends with "}": an object is
\* "{" "}" or "{" member ("," member)* "}"; a repeated key keeps its last
\* value; anything else is a JSONDecodeError.
json_loads(text) ==
    LET body == SubSeq(text, 2, Len(text) - 1)
        wellformed ==
            \/ body = <<>>
            \/ /\ Len(body) % 2 = 1
               /\ \A i \in 1..Len(body) :
                    body[i].tok = (IF i % 2 = 1 THEN "pair" ELSE ",")
        keys == {body[i].key : i \in {j \in 1..Len(body) : body[j].tok = "pair"}}
    IN IF wellformed
       THEN [error |-> FALSE,
             obj |-> [k \in keys |->
                        body[Max({i \in 1..Len(body) : body[i].key = k})].val]]
       ELSE [error |-> TRUE, obj |-> EmptyDict]

\* extract_json: the decoded object, or None when no match is found or the
\* decoding fails.
extract_json(response) ==
    LET match == re_search(response)
    IN IF match.found
       THEN IF json_loads(match.group).error THEN None
            ELSE Some(json_loads(match.group).obj)
       ELSE None

\* `parsed and "inner_monologue" in parsed`: None and the empty dict are falsy.
HasField(parsed) ==
    /\ ~parsed.none
    /\ DOMAIN parsed.obj # {}
    /\ FIELD \in DOMAIN parsed.obj

\* What a call of the Model Client can end in: an exception, or a reply text.
Raised == [raised |-> TRUE, content |-> <<>>]
Returned(c) == [raised |-> FALSE, content |-> c]

\* send_messages: completion.choices[0].message.content.strip().
send_messages(outcome) == Strip(outcome.content, {WS})

\* ---------------------------------------------------------- Checkpoint Store
Digits == <<"0", "1", "2", "3", "4", "5", "6", "7", "8", "9">>
DigitVal(c) == (CHOOSE d \in 1..10 : Digits[d] = c) - 1

\* str(n) for n >= 0.
RECURSIVE str(_)
str(n) == IF n < 10 THEN <<Digits[n + 1]>> ELSE str(n \div 10) \o <<Digits[(n % 10) + 1]>>

\* int(token) for a token of decimal digits.
RECURSIVE int(_)
int(token) ==
    IF Len(token) = 1 THEN DigitVal(token[1])
    ELSE 10 * int(SubSeq(token, 1, Len(token) - 1)) + DigitVal(token[Len(token)])

\* ",".join(parts).
RECURSIVE join(_)
join(parts) ==
    IF parts = <<>> THEN <<>>
    ELSE IF Len(parts) = 1 THEN parts[1]
    ELSE parts[1] \o <<COMMA>> \o join(Tail(parts))

\* "".join(parts).
RECURSIVE concat(_)
concat(parts) == IF parts = <<>> THEN <<>> ELSE parts[1] \o concat(Tail(parts))

\* content.split(","): the pieces between the commas.
RECURSIVE split(_)
split(content) ==
    LET commas == {i \in 1..Len(content) : content[i] = COMMA}
    IN IF commas = {} THEN <<content>>
       ELSE <<SubSeq(content, 1, Min(commas) - 1)>>
            \o split(SubSeq(content, Min(commas) + 1, Len(content)))

NoFile == [exists |-> FALSE, content |-> <<>>]
File(c) == [exists |-> TRUE, content |-> c]

\* save_checkpoint, as a bug would have it: the indexes are written with no
\* separator between them.
save_checkpoint_unseparated(order) ==
    File(concat([i \in 1..Len(order) |-> str(order[i])]))

\* save_checkpoint: the file holds ",".join(map(str, completed_indexes));
\* order is the order in which the set is iterated.
save_checkpoint(order) == File(join([i \in 1..Len(order) |-> str(order[i])]))

\* load_checkpoint: the set of the integers between the commas; the empty set
\* for an empty or absent file.
load_checkpoint(file) ==
    IF file.exists
    THEN LET content == Strip(file.content, Whitespace)
         IN IF content # <<>>
            THEN {int(split(content)[i]) : i \in 1..Len(split(content))}
            ELSE {}
    ELSE {}

\* ------------------------------------------------------------------- state
VARIABLES
    source,             \* the rows of the source dataset: [w: weight, s: sentence]
    budget,             \* invocations of main the operator still makes
    checkpoint_file,    \* CHECKPOINT_FILE: [exists, content]
    cache_file,         \* CACHE_FILE: [exists, content: rows of the dataset]
    fail_file,          \* FAIL_FILE: [exists, content: Failure Records]
    output_file,        \* OUTPUT_FILE: [exists, content: Generation Records]
    before,             \* the four files as the current invocation found them
    checkpoint_writes,  \* writes of CHECKPOINT_FILE in the current invocation
    pc,                 \* "idle" (no invocation yet), "pool" (tasks running), "done"
    choice,             \* the mode the operator entered in the current invocation
    orchestrated,       \* process_sentences_concurrently was called in this invocation
    sentences,          \* its argument sentences
    start_index,        \* its argument start_index
    ignore_checkpoint,  \* its argument ignore_checkpoint
    completed_indexes,  \* its local completed_indexes
    to_process,         \* its local to_process, as the sequence of Indexes
    results,            \* its local results
    fail_data,          \* its local fail_data
    queue,              \* the executor's work queue: submitted, not yet started
    task,               \* Index -> the worker's process_sentence call
    future,             \* Index -> the task's future
    collected,          \* the Indexes whose futures as_completed has yielded
    fn_pc,              \* position of a pure-function run
    fn_arg,             \* its input
    fn_ret              \* its result

disk == <<checkpoint_file, cache_file, fail_file, output_file>>
run == <<orchestrated, sentences, start_index, ignore_checkpoint, completed_indexes,
         to_process, results, fail_data, queue, task, future, collected>>
fn == <<fn_pc, fn_arg, fn_ret>>
vars == <<source, budget, disk, before, checkpoint_writes, pc, choice, run, fn>>

\* ------------------------------------------------------------- the dataset
NaN == "NaN"
Rows == {[w |-> WEIGHT, s |-> "A"], [w |-> WEIGHT, s |-> "B"],
         [w |-> WEIGHT, s |-> NaN], [w |-> 1, s |-> "A"]}

RECURSIVE SeqsUpTo(_, _)
SeqsUpTo(S, n) ==
    IF n = 0 THEN {<<>>}
    ELSE SeqsUpTo(S, n - 1)
         \cup {Append(q, x) : q \in {r \in SeqsUpTo(S, n - 1) : Len(r) = n - 1}, x \in S}

Datasets == SeqsUpTo(Rows, MaxLen)

\* df['自我肯定语'].dropna().tolist()
dropna(rows) ==
    LET kept == SelectSeq(rows, LAMBDA r : r.s # NaN)
    IN [i \in 1..Len(kept) |-> kept[i].s]

\* ------------------------------------------------------- the Model Client
\* The narrative texts the model writes here: one line, and two lines.
Text1 == Str(<<"a">>)
Text2 == Str(<<"a", NL, "n">>)
Texts == {Text1, Text2}

\* The reply texts: not JSON at all; two objects in a row (the greedy match
\* spans both and does not decode); the empty object; an object without the
\* field; the object with the field; the object with the field among other
\* members, inside other text and followed by whitespace.
Contents ==
    { <<TXT>>,
      <<LB, Pair(FIELD, Text1), RB, LB, Pair(FIELD, Text1), RB>>,
      <<LB, RB>>,
      <<LB, Pair("other", Text1), RB>>,
      <<LB, Pair(FIELD, Text1), RB>>,
      <<TXT, LB, Pair("other", Text1), CM, Pair(FIELD, Text2), RB, WS>> }

Outcomes == {Raised} \cup {Returned(c) : c \in Contents}

\* ------------------------------------------------------------ the Task Unit
\* The draft prompt embeds the sentence; the critique prompt embeds the
\* stage-1 narrative text.
prompt(sentence) == [tmpl |-> "prompt", embeds |-> Str(<<sentence>>)]
check_prompt(value) == [tmpl |-> "check_prompt", embeds |-> value]
user(content) == [role |-> "user", content |-> content]

\* The result of process_sentence: None, or the Generation Record.
NoRecord == [none |-> TRUE, s |-> "", mono |-> NoVal, model |-> ""]
Record(sentence, value) ==
    [none |-> FALSE, s |-> sentence, mono |-> value, model |-> MODEL_NAME]

\* What the worker does when a call of send_messages ends: it returns a
\* result, or goes on to the next call with these messages.
Return(result, messages) == [returns |-> TRUE, result |-> result, messages |-> messages]
CallAgain(messages) == [returns |-> FALSE, result |-> NoRecord, messages |-> messages]

\* process_sentence's first stage, as a bug would have it: the reply's field is
\* not checked before the critique is sent.
process_sentence_stage1_unchecked(sentence, messages, outcome) ==
    IF outcome.raised THEN Return(NoRecord, messages)
    ELSE LET parsed_response == extract_json(send_messages(outcome))
         IN CallAgain(Append(messages,
                             user(check_prompt(IF HasField(parsed_response)
                                               THEN parsed_response.obj[FIELD]
                                               ELSE NoVal))))

\* process_sentence's first stage, as a bug would have it: the critique is sent
\* as a conversation of its own, without the turn of the first request.
process_sentence_stage1_fresh(sentence, messages, outcome) ==
    IF outcome.raised THEN Return(NoRecord, messages)
    ELSE LET parsed_response == extract_json(send_messages(outcome))
         IN IF HasField(parsed_response)
            THEN CallAgain(<<user(check_prompt(parsed_response.obj[FIELD]))>>)
            ELSE Return(NoRecord, messages)

\* process_sentence from the first call's end to the second call or the return.
process_sentence_stage1(sentence, messages, outcome) ==
    IF outcome.raised THEN Return(NoRecord, messages)
    ELSE LET parsed_response == extract_json(send_messages(outcome))
         IN IF HasField(parsed_response)
            THEN CallAgain(Append(messages,
                                  user(check_prompt(parsed_response.obj[FIELD]))))
            ELSE Return(NoRecord, messages)

\* process_sentence's second stage, as a bug would have it: the record holds
\* the draft (the text the critique prompt embeds), not the refined text.
process_sentence_stage2_keeping_draft(sentence, messages, outcome) ==
    IF outcome.raised THEN Return(NoRecord, messages)
    ELSE LET check_parsed_response == extract_json(send_messages(outcome))
         IN IF HasField(check_parsed_response)
            THEN Return(Record(sentence,
                               clean_value(messages[Len(messages)].content.embeds)),
                        messages)
            ELSE Return(NoRecord, messages)

\* process_sentence from the second call's end to the return.
process_sentence_stage2(sentence, messages, outcome) ==
    IF outcome.raised THEN Return(NoRecord, messages)
    ELSE LET check_parsed_response == extract_json(send_messages(outcome))
         IN IF HasField(check_parsed_response)
            THEN Return(Record(sentence, clean_value(check_parsed_response.obj[FIELD])),
                        messages)
            ELSE Return(NoRecord, messages)

\* ------------------------------------------------------------ the Result Sink
\* save_results' Output Table, as a bug would have it: the new records are
\* written without the rows already on disk.
save_results_output_overwriting(new_results, file) ==
    IF new_results # <<>> THEN File(new_results) ELSE file

\* save_results, the Output Table: the new records after the rows on disk.
save_results_output(new_results, file) ==
    IF new_results # <<>>
    THEN File((IF file.exists THEN file.content ELSE <<>>) \o new_results)
    ELSE file

\* save_results' Failure Table, as a bug would have it: a stale table is left
\* in place when nothing failed.
save_results_fail_keeping(new_fail_data, file) ==
    IF new_fail_data # <<>> THEN File(new_fail_data) ELSE file

\* save_results, the Failure Table: overwritten, or removed when nothing failed.
save_results_fail(new_fail_data, file) ==
    IF new_fail_data # <<>> THEN File(new_fail_data) ELSE NoFile

\* ------------------------------------------------------- the orchestrator
Running == {i \in DOMAIN task : task[i].st \in {"stage1", "stage2"}}

\* to_process, as a bug would have it: the filter looks up the position
\* counted from one.
ToProcess_off_by_one(sents, si, completed) ==
    SelectSeq([i \in 1..Len(sents) |-> [idx |-> (i - 1) + si, sent |-> sents[i]]],
              LAMBDA p : (p.idx + 1) \notin completed)

\* to_process: the positions whose Index is not completed, in input order.
ToProcess(sents, si, completed) ==
    SelectSeq([i \in 1..Len(sents) |-> [idx |-> (i - 1) + si, sent |-> sents[i]]],
              LAMBDA p : p.idx \notin completed)

\* The state of an invocation that does not call the orchestrator.
NoRun ==
    /\ orchestrated' = FALSE
    /\ sentences' = <<>>
    /\ start_index' = 0
    /\ ignore_checkpoint' = FALSE
    /\ completed_indexes' = {}
    /\ to_process' = <<>>
    /\ results' = <<>>
    /\ fail_data' = <<>>
    /\ queue' = <<>>
    /\ task' = <<>>
    /\ future' = <<>>
    /\ collected' = {}

\* process_sentences_concurrently up to the submission of the tasks; with
\* nothing to process it returns at once and main goes on to save_results.
process_sentences_concurrently(sents, si, ign) ==
    LET completed == IF ign THEN {} ELSE load_checkpoint(checkpoint_file)
        tp == ToProcess(sents, si, completed)
    IN /\ orchestrated' = TRUE
       /\ sentences' = sents
       /\ start_index' = si
       /\ ignore_checkpoint' = ign
       /\ completed_indexes' = completed
       /\ to_process' = tp
       /\ results' = <<>>
       /\ fail_data' = <<>>
       /\ collected' = {}
       /\ queue' = [i \in 1..Len(tp) |-> tp[i].idx]
       /\ task' = [i \in {tp[k].idx : k \in 1..Len(tp)} |->
                     [index |-> i,
                      sentence |-> tp[CHOOSE k \in 1..Len(tp) : tp[k].idx = i].sent,
                      st |-> "queued",
                      messages |-> <<>>, replies |-> <<>>]]
       /\ future' = [i \in {tp[k].idx : k \in 1..Len(tp)} |->
                       [state |-> "pending", index |-> i, result |-> NoRecord]]
       /\ UNCHANGED checkpoint_file
       /\ IF tp = <<>>
          THEN /\ pc' = "done"
               /\ output_file' = save_results_output(<<>>, output_file)
               /\ fail_file' = save_results_fail(<<>>, fail_file)
          ELSE /\ pc' = "pool"
               /\ UNCHANGED <<output_file, fail_file>>

\* The pool, as a bug would have it: built without max_workers, a worker is
\* there for every submitted task.
StartTask_unbounded ==
    /\ pc = "pool"
    /\ queue # <<>>
    /\ LET idx == Head(queue)
       IN task' = [task EXCEPT ![idx].st = "stage1",
                               ![idx].messages = <<user(prompt(task[idx].sentence))>>]
    /\ queue' = Tail(queue)
    /\ UNCHANGED <<source, budget, disk, before, checkpoint_writes, pc, choice,
                   orchestrated, sentences,
                   start_index, ignore_checkpoint, completed_indexes, to_process,
                   results, fail_data, future, collected, fn>>

\* A worker of the pool takes the oldest submitted task and runs
\* process_sentence up to its first call of send_messages.
StartTask ==
    /\ pc = "pool"
    /\ queue # <<>>
    /\ Cardinality(Running) < MAX_WORKERS
    /\ LET idx == Head(queue)
       IN task' = [task EXCEPT ![idx].st = "stage1",
                               ![idx].messages = <<user(prompt(task[idx].sentence))>>]
    /\ queue' = Tail(queue)
    /\ UNCHANGED <<source, budget, disk, before, checkpoint_writes, pc, choice,
                   orchestrated, sentences,
                   start_index, ignore_checkpoint, completed_indexes, to_process,
                   results, fail_data, future, collected, fn>>

\* The step of a task, as a bug would have it: a raised call ends the worker
\* without resolving the task's future.
Step_hanging(idx, outcome) ==
    LET t == task[idx]
        next == IF t.st = "stage1"
                THEN process_sentence_stage1(t.sentence, t.messages, outcome)
                ELSE process_sentence_stage2(t.sentence, t.messages, outcome)
    IN /\ task' = [task EXCEPT ![idx].st = IF next.returns THEN "returned" ELSE "stage2",
                               ![idx].messages = next.messages,
                               ![idx].replies = Append(t.replies, outcome)]
       /\ future' = IF next.returns /\ ~outcome.raised
                    THEN [future EXCEPT ![idx] = [state |-> "finished",
                                                  index |-> t.index,
                                                  result |-> next.result]]
                    ELSE future
       /\ UNCHANGED <<source, budget, disk, before, checkpoint_writes, pc, choice,
                      orchestrated, sentences,
                      start_index, ignore_checkpoint, completed_indexes, to_process,
                      results, fail_data, queue, collected, fn>>

\* The step of a task, as a bug would have it: the worker thread itself adds
\* a success to the shared results and completed_indexes.
Step_recording(idx, outcome) ==
    LET t == task[idx]
        next == IF t.st = "stage1"
                THEN process_sentence_stage1(t.sentence, t.messages, outcome)
                ELSE process_sentence_stage2(t.sentence, t.messages, outcome)
        ok == next.returns /\ ~next.result.none
    IN /\ task' = [task EXCEPT ![idx].st = IF next.returns THEN "returned" ELSE "stage2",
                               ![idx].messages = next.messages,
                               ![idx].replies = Append(t.replies, outcome)]
       /\ future' = IF next.returns
                    THEN [future EXCEPT ![idx] = [state |-> "finished",
                                                  index |-> t.index,
                                                  result |-> next.result]]
                    ELSE future
       /\ results' = IF ok THEN Append(results, next.result) ELSE results
       /\ completed_indexes' = IF ok THEN completed_indexes \cup {t.index}
                                     ELSE completed_indexes
       /\ UNCHANGED <<source, budget, disk, before, checkpoint_writes, pc, choice,
                      orchestrated, sentences, start_index, ignore_checkpoint,
                      to_process, fail_data, queue, collected, fn>>

\* The step of task idx when its pending call of send_messages ends in outcome.
Step(idx, outcome) ==
    LET t == task[idx]
        next == IF t.st = "stage1"
                THEN process_sentence_stage1(t.sentence, t.messages, outcome)
                ELSE process_sentence_stage2(t.sentence, t.messages, outcome)
    IN /\ task' = [task EXCEPT ![idx].st = IF next.returns THEN "returned" ELSE "stage2",
                               ![idx].messages = next.messages,
                               ![idx].replies = Append(t.replies, outcome)]
       /\ future' = IF next.returns
                    THEN [future EXCEPT ![idx] = [state |-> "finished",
                                                  index |-> t.index,
                                                  result |-> next.result]]
                    ELSE future
       /\ UNCHANGED <<source, budget, disk, before, checkpoint_writes, pc, choice,
                      orchestrated, sentences,
                      start_index, ignore_checkpoint, completed_indexes, to_process,
                      results, fail_data, queue, collected, fn>>

\* The first call of a task ends.
Stage1Return ==
    /\ pc = "pool"
    /\ \E idx \in DOMAIN task, outcome \in Outcomes :
         task[idx].st = "stage1" /\ Step(idx, outcome)

\* The second call of a task ends.
Stage2Return ==
    /\ pc = "pool"
    /\ \E idx \in DOMAIN task, outcome \in Outcomes :
         task[idx].st = "stage2" /\ Step(idx, outcome)

\* The loop body, as a bug would have it: a failed task is not recorded.
collect_dropping_failures(index, result, res, completed, fails, sents, si) ==
    IF ~result.none
    THEN [results |-> Append(res, result),
          completed_indexes |-> completed \cup {index},
          fail_data |-> fails]
    ELSE [results |-> res, completed_indexes |-> completed, fail_data |-> fails]

\* The loop body, as a bug would have it: a failed task throws away what the
\* batch has gathered so far.
collect_resetting(index, result, res, completed, fails, sents, si) ==
    IF ~result.none
    THEN [results |-> Append(res, result),
          completed_indexes |-> completed \cup {index},
          fail_data |-> fails]
    ELSE [results |-> <<>>,
          completed_indexes |-> {},
          fail_data |-> Append(fails, [s |-> sents[(index - si) + 1]])]

\* The loop body, as a bug would have it: the Index of a failed task is marked
\* completed all the same.
collect_completing_failures(index, result, res, completed, fails, sents, si) ==
    IF ~result.none
    THEN [results |-> Append(res, result),
          completed_indexes |-> completed \cup {index},
          fail_data |-> fails]
    ELSE [results |-> res,
          completed_indexes |-> completed \cup {index},
          fail_data |-> Append(fails, [s |-> sents[(index - si) + 1]])]

\* The loop body, as a bug would have it: the k-th future to complete is taken
\* for the k-th task submitted, instead of reading the Index the task returns.
collect_positional(index, result, res, completed, fails, sents, si) ==
    LET pos == Len(res) + Len(fails)
    IN IF ~result.none
       THEN [results |-> Append(res, result),
             completed_indexes |-> completed \cup {pos + si},
             fail_data |-> fails]
       ELSE [results |-> res,
             completed_indexes |-> completed,
             fail_data |-> Append(fails, [s |-> sents[pos + 1]])]

\* What the collecting loop does with one future's result: the new results,
\* completed_indexes and fail_data.
collect(index, result, res, completed, fails, sents, si) ==
    IF ~result.none
    THEN [results |-> Append(res, result),
          completed_indexes |-> completed \cup {index},
          fail_data |-> fails]
    ELSE [results |-> res,
          completed_indexes |-> completed,
          fail_data |-> Append(fails, [s |-> sents[(index - si) + 1]])]

\* The loop, as a bug would have it: the checkpoint is saved inside the loop,
\* after every future, while other tasks are still running.
Collect_saving ==
    /\ pc = "pool"
    /\ \E idx \in DOMAIN future :
         /\ future[idx].state = "finished"
         /\ idx \notin collected
         /\ collected' = collected \cup {idx}
         /\ LET got == collect(future[idx].index, future[idx].result, results,
                               completed_indexes, fail_data, sentences, start_index)
            IN /\ results' = got.results
               /\ completed_indexes' = got.completed_indexes
               /\ fail_data' = got.fail_data
               /\ \E order \in Orderings(got.completed_indexes) :
                    checkpoint_file' = IF ~ignore_checkpoint THEN save_checkpoint(order)
                                                             ELSE checkpoint_file
    /\ checkpoint_writes' = IF ~ignore_checkpoint THEN checkpoint_writes + 1
                                                  ELSE checkpoint_writes
    /\ UNCHANGED <<source, budget, cache_file, fail_file, output_file, before, pc, choice,
                   orchestrated, sentences, start_index, ignore_checkpoint, to_process,
                   queue, task, future, fn>>

\* as_completed yields a finished future and the loop body runs on it.
Collect ==
    /\ pc = "pool"
    /\ \E idx \in DOMAIN future :
         /\ future[idx].state = "finished"
         /\ idx \notin collected
         /\ collected' = collected \cup {idx}
         /\ LET got == collect(future[idx].index, future[idx].result, results,
                               completed_indexes, fail_data, sentences, start_index)
            IN /\ results' = got.results
               /\ completed_indexes' = got.completed_indexes
               /\ fail_data' = got.fail_data
    /\ UNCHANGED <<source, budget, disk, before, checkpoint_writes, pc, choice,
                   orchestrated, sentences,
                   start_index, ignore_checkpoint, to_process, queue, task, future, fn>>

\* The checkpoint after the loop, as a bug would have it: saved in every run.
persist_always(ign, order, file) == save_checkpoint(order)

\* The checkpoint file after the loop: written unless the run ignores it.
persist(ign, order, file) == IF ~ign THEN save_checkpoint(order) ELSE file

\* Every future has been collected: the pool shuts down, the checkpoint is
\* saved, process_sentences_concurrently returns and main calls save_results.
Finish ==
    /\ pc = "pool"
    /\ collected = DOMAIN future
    /\ \E order \in Orderings(completed_indexes) :
         checkpoint_file' = persist(ignore_checkpoint, order, checkpoint_file)
    /\ output_file' = save_results_output(results, output_file)
    /\ fail_file' = save_results_fail(fail_data, fail_file)
    /\ checkpoint_writes' = IF ~ignore_checkpoint THEN checkpoint_writes + 1
                                                  ELSE checkpoint_writes
    /\ pc' = "done"
    /\ UNCHANGED <<source, budget, cache_file, before, choice, run, fn>>

\* ---------------------------------------------------------------- main
Enter(ch) ==
    /\ pc \in {"idle", "done"}
    /\ budget > 0
    /\ budget' = budget - 1
    /\ choice' = ch
    /\ before' = [checkpoint |-> checkpoint_file, cache |-> cache_file,
                  fail |-> fail_file, output |-> output_file]
    /\ checkpoint_writes' = 0
    /\ UNCHANGED <<source, fn>>

\* An invocation that ends with a message only.
MessageOnly == pc' = "done" /\ NoRun /\ UNCHANGED disk

\* Mode 1: the rows of weight 3 are cached and processed, honouring the checkpoint.
Main1 ==
    /\ Enter("1")
    /\ LET df == SelectSeq(source, LAMBDA r : r.w = WEIGHT)
       IN /\ cache_file' = File(df)
          /\ process_sentences_concurrently(dropna(df), 0, FALSE)

\* Mode 2: the sentences of the Failure Table are processed, ignoring the checkpoint.
Main2 ==
    /\ Enter("2")
    /\ IF fail_file.exists
       THEN /\ process_sentences_concurrently(dropna(fail_file.content), 0, TRUE)
            /\ UNCHANGED cache_file
       ELSE MessageOnly

\* Mode 3, as a bug would have it: the resume numbers the sentences from the
\* size of the Checkpoint Set on.
Main3_renumbering ==
    /\ Enter("3")
    /\ IF cache_file.exists
       THEN IF Cardinality(load_checkpoint(checkpoint_file)) >= Len(cache_file.content)
            THEN MessageOnly
            ELSE /\ process_sentences_concurrently(
                        dropna(cache_file.content),
                        Cardinality(load_checkpoint(checkpoint_file)), FALSE)
                 /\ UNCHANGED cache_file
       ELSE MessageOnly

\* Mode 3, as a bug would have it: without a cache it falls back on the source
\* dataset, as mode 1 does.
Main3_falling_back ==
    /\ Enter("3")
    /\ IF cache_file.exists
       THEN IF Cardinality(load_checkpoint(checkpoint_file)) >= Len(cache_file.content)
            THEN MessageOnly
            ELSE /\ process_sentences_concurrently(dropna(cache_file.content), 0, FALSE)
                 /\ UNCHANGED cache_file
       ELSE LET df == SelectSeq(source, LAMBDA r : r.w = WEIGHT)
            IN /\ cache_file' = File(df)
               /\ process_sentences_concurrently(dropna(df), 0, FALSE)

\* Mode 3: the cached rows are processed, honouring the checkpoint, unless the
\* checkpoint holds at least as many Indexes as the cache has rows.
Main3 ==
    /\ Enter("3")
    /\ IF cache_file.exists
       THEN IF Cardinality(load_checkpoint(checkpoint_file)) >= Len(cache_file.content)
            THEN MessageOnly
            ELSE /\ process_sentences_concurrently(dropna(cache_file.content), 0, FALSE)
                 /\ UNCHANGED cache_file
       ELSE MessageOnly

\* Mode 0 (exit) and any other input.
MainOther == \E ch \in {"0", "x"} : Enter(ch) /\ MessageOnly

\* ------------------------------------------------------- the specification
EmptyRun ==
    /\ orchestrated = FALSE
    /\ sentences = <<>>
    /\ start_index = 0
    /\ ignore_checkpoint = FALSE
    /\ completed_indexes = {}
    /\ to_process = <<>>
    /\ results = <<>>
    /\ fail_data = <<>>
    /\ queue = <<>>
    /\ task = <<>>
    /\ future = <<>>
    /\ collected = {}

NoFn == fn_pc = "none" /\ fn_arg = NoVal /\ fn_ret = NoVal

Init ==
    /\ source \in Datasets
    /\ budget = MaxRuns
    /\ checkpoint_file = NoFile
    /\ cache_file = NoFile
    /\ fail_file = NoFile
    /\ output_file = NoFile
    /\ before = [checkpoint |-> NoFile, cache |-> NoFile, fail |-> NoFile,
                 output |-> NoFile]
    /\ checkpoint_writes = 0
    /\ pc = "idle"
    /\ choice = ""
    /\ EmptyRun
    /\ NoFn

Next ==
    \/ Main1
    \/ Main2
    \/ Main3
    \/ MainOther
    \/ StartTask
    \/ Stage1Return
    \/ Stage2Return
    \/ Collect
    \/ Finish

Spec == Init /\ [][Next]_vars

\* The pool's threads and the collecting loop are scheduled, and every call
\* of the Model Client returns or raises.
FairSpec ==
    /\ Spec
    /\ WF_vars(StartTask)
    /\ WF_vars(Stage1Return)
    /\ WF_vars(Stage2Return)
    /\ WF_vars(Collect)
    /\ WF_vars(Finish)

\* ------------------------------------------------------------ the claims
\* A call ended in a reply that decodes to an object holding the field.
Good(outcome) == ~outcome.raised /\ HasField(extract_json(send_messages(outcome)))
FieldOf(outcome) == extract_json(send_messages(outcome)).obj[FIELD]

\* Both stages of task idx ended in such a reply.
Succeeded(idx) ==
    /\ Len(task[idx].replies) = 2
    /\ Good(task[idx].replies[1])
    /\ Good(task[idx].replies[2])

\* The calls of the Model Client task idx has made.
Calls(idx) ==
    CASE task[idx].st = "queued" -> 0
      [] task[idx].st = "stage1" -> 1
      [] task[idx].st = "stage2" -> 2
      [] OTHER -> Len(task[idx].replies)

\* The Checkpoint Set the run started from.
Loaded == IF ignore_checkpoint THEN {} ELSE load_checkpoint(before.checkpoint)

Returned_(idx) == task[idx].st = "returned"
Range(q) == {q[i] : i \in 1..Len(q)}

\* C1: process_sentence returns exactly one outcome, the Generation Record of
\* its sentence or the failure signal, whatever the Model Client does at
\* either stage; and when process_sentences_concurrently has returned, every
\* dispatched Index is accounted for by exactly one entry of results or of
\* fail_data: len(results) + len(fail_data) is the number of dispatched tasks.
C1_ExactlyOneOutcome ==
    /\ \A idx \in DOMAIN task :
         /\ Returned_(idx) <=> future[idx].state = "finished"
         /\ future[idx].state = "finished" =>
              \/ future[idx].result = NoRecord
              \/ /\ ~future[idx].result.none
                 /\ future[idx].result.s = task[idx].sentence
         /\ future[idx].index = idx
    /\ pc = "pool" => Len(results) + Len(fail_data) = Cardinality(collected)
    /\ (pc = "done" /\ orchestrated) =>
         /\ \A idx \in DOMAIN future : future[idx].state = "finished"
         /\ Len(results) + Len(fail_data) = Len(to_process)
         /\ Len(results) =
              Cardinality({idx \in DOMAIN future : ~future[idx].result.none})
         /\ Len(fail_data) =
              Cardinality({idx \in DOMAIN future : future[idx].result.none})

\* A batch has returned with a Generation Record and a Failure Record.
C1_Witness ==
    /\ pc = "done"
    /\ orchestrated
    /\ Len(results) = 1
    /\ Len(fail_data) = 1

\* C2: in a run without bypass no Index of the Checkpoint Set loaded at the
\* start is submitted to the Model Client; when every position of the input
\* is in that set, no task is dispatched and the orchestrator returns no
\* Generation Record and no Failure Record.
C2_CheckpointedNeverResubmitted ==
    (orchestrated /\ ~ignore_checkpoint) =>
        /\ \A idx \in DOMAIN task : idx \notin load_checkpoint(before.checkpoint)
        /\ \A i \in 1..Len(to_process) :
             to_process[i].idx \notin load_checkpoint(before.checkpoint)
        /\ (\A i \in 1..Len(sentences) :
               ((i - 1) + start_index) \in load_checkpoint(before.checkpoint)) =>
             /\ DOMAIN task = {}
             /\ to_process = <<>>
             /\ results = <<>>
             /\ fail_data = <<>>
             /\ pc = "done"

\* A run without bypass found an Index checkpointed, left it alone, and
\* called the Model Client for another one.
C2_Witness ==
    /\ orchestrated
    /\ ~ignore_checkpoint
    /\ load_checkpoint(before.checkpoint) # {}
    /\ \E idx \in DOMAIN task : Calls(idx) > 0
    /\ Len(sentences) > Cardinality(DOMAIN task)

\* A run without bypass found every position checkpointed and dispatched nothing.
C2_WitnessIdempotent ==
    /\ orchestrated
    /\ ~ignore_checkpoint
    /\ sentences # <<>>
    /\ DOMAIN task = {}
    /\ pc = "done"

\* C3: a run with bypass leaves the checkpoint file as it found it, whatever
\* succeeds or fails and in whatever order the tasks complete.
C3_BypassLeavesCheckpoint ==
    (orchestrated /\ ignore_checkpoint) => checkpoint_file = before.checkpoint

\* A bypass run has returned with a success whose Index the checkpoint file
\* on disk does not hold.
C3_Witness ==
    /\ pc = "done"
    /\ orchestrated
    /\ ignore_checkpoint
    /\ before.checkpoint.exists
    /\ results # <<>>
    /\ fail_data # <<>>
    /\ completed_indexes # load_checkpoint(checkpoint_file)

\* C4: a task yields a Generation Record exactly when both its replies decode
\* to an object holding inner_monologue and no call raised; the record then
\* holds the task's sentence, the stage-2 text with its newlines escaped, and
\* the model identifier.  Every other task yields the failure outcome.
C4_RecordIffBothStages ==
    \A idx \in DOMAIN task :
        Returned_(idx) =>
            /\ ~future[idx].result.none <=> Succeeded(idx)
            /\ Succeeded(idx) =>
                 /\ future[idx].result.s = task[idx].sentence
                 /\ future[idx].result.mono =
                      Str(Replace(FieldOf(task[idx].replies[2]).v, <<NL>>, <<BS, "n">>))
                 /\ ~HasNewline(future[idx].result.mono)
                 /\ future[idx].result.model = MODEL_NAME
            /\ ~Succeeded(idx) => future[idx].result = NoRecord

\* A record was made from a draft and a different, two-line refined text.
C4_Witness ==
    \E idx \in DOMAIN task :
        /\ Returned_(idx)
        /\ ~future[idx].result.none
        /\ FieldOf(task[idx].replies[1]) # FieldOf(task[idx].replies[2])
        /\ HasNewline(FieldOf(task[idx].replies[2]))

\* C5: a task whose first stage fails makes no second call of the Model
\* Client: a task makes at most two calls, and the second one only after the
\* first reply decoded to an object holding the field.
C5_NoSecondStageAfterFailure ==
    \A idx \in DOMAIN task :
        /\ Calls(idx) <= 2
        /\ Len(task[idx].replies) <= Calls(idx)
        /\ Calls(idx) = 2 => Good(task[idx].replies[1])
        /\ (Len(task[idx].replies) >= 1 /\ ~Good(task[idx].replies[1])) =>
             /\ Returned_(idx)
             /\ Calls(idx) = 1
             /\ Len(task[idx].messages) = 1

\* A task has returned after one call whose reply held no usable object.
C5_Witness ==
    \E idx \in DOMAIN task :
        /\ Returned_(idx)
        /\ Calls(idx) = 1
        /\ ~task[idx].replies[1].raised
        /\ ~Good(task[idx].replies[1])

\* C6: a failing task (a malformed reply, or a call that raised) does not
\* abort the batch: every dispatched task runs to its own outcome, and
\* results, the completed set, the persisted checkpoint and the Output Table
\* hold the successes of the other tasks, each decided by its own replies.
C6_FailuresContained ==
    orchestrated =>
        LET ok == {idx \in DOMAIN task : Succeeded(idx)} \cap collected
        IN /\ completed_indexes = Loaded \cup ok
           /\ Len(results) = Cardinality(ok)
           /\ Range(results) =
                {Record(task[idx].sentence, clean_value(FieldOf(task[idx].replies[2]))) :
                    idx \in ok}
           /\ pc = "done" =>
                /\ \A idx \in DOMAIN task : Returned_(idx)
                /\ collected = DOMAIN task
                /\ ~ignore_checkpoint /\ DOMAIN task # {} =>
                     load_checkpoint(checkpoint_file) = Loaded \cup ok
                /\ results # <<>> =>
                     /\ output_file.exists
                     /\ output_file.content = before.output.content \o results

\* A batch has returned in which one task's call raised, another task failed
\* on a malformed reply or succeeded, and a success is in the checkpoint.
C6_Witness ==
    /\ pc = "done"
    /\ orchestrated
    /\ ~ignore_checkpoint
    /\ \E i, j \in DOMAIN task :
         /\ i < j
         /\ task[i].replies[1].raised
         /\ Succeeded(j)
         /\ j \in load_checkpoint(checkpoint_file)
         /\ i \notin load_checkpoint(checkpoint_file)

\* C7: after a run of the orchestrator that produced no failure, in any mode
\* and also when nothing was pending, the Failure Table file is absent, even
\* if it existed before the run.
C7_NoFailuresNoFailureTable ==
    (pc = "done" /\ orchestrated /\ fail_data = <<>>) => ~fail_file.exists

\* A run without failures has ended that found a Failure Table on disk.
C7_Witness ==
    /\ pc = "done"
    /\ orchestrated
    /\ fail_data = <<>>
    /\ before.fail.exists
    /\ ~fail_file.exists

\* C10: under fair scheduling, with every call of the Model Client returning
\* or raising, a batch that has dispatched its tasks returns, with every
\* dispatched task resolved, however many tasks fail and in whatever order.
C10_BatchTerminates ==
    (pc = "pool") ~>
        (pc = "done" /\ \A idx \in DOMAIN future : future[idx].state = "finished")

\* A batch of two tasks has returned in which every task failed.
C10_Witness ==
    /\ pc = "done"
    /\ Cardinality(DOMAIN task) >= 2
    /\ \A idx \in DOMAIN task : future[idx].state = "finished" /\ future[idx].result.none

\* C11: the Output Table is append-only across runs. While the tasks of a run
\* are in flight the table is the one the invocation found; after save_results
\* the rows it found are still there, unchanged and in the same order, as a
\* prefix, followed by this run's Generation Records in the order they were
\* collected; and a run without new records leaves the table untouched.
C11_OutputAppendOnly ==
    orchestrated =>
        /\ pc = "pool" => output_file = before.output
        /\ pc = "done" =>
             IF results # <<>>
             THEN /\ output_file.exists
                  /\ Len(output_file.content) = Len(before.output.content) + Len(results)
                  /\ SubSeq(output_file.content, 1, Len(before.output.content)) =
                        before.output.content
                  /\ SubSeq(output_file.content, Len(before.output.content) + 1,
                            Len(output_file.content)) = results
             ELSE output_file = before.output

\* A run has ended that found rows in the Output Table and added a record.
C11_Witness ==
    /\ pc = "done"
    /\ orchestrated
    /\ before.output.exists
    /\ before.output.content # <<>>
    /\ results # <<>>
    /\ Len(output_file.content) > Len(before.output.content)

\* A run without a new record has ended that found rows in the Output Table.
C11_WitnessUntouched ==
    /\ pc = "done"
    /\ orchestrated
    /\ DOMAIN task # {}
    /\ results = <<>>
    /\ before.output.exists
    /\ output_file = before.output

\* C12: for every order in which the futures complete, each result is keyed
\* back to the Index of the task it came from: a future carries the Index of
\* its own task, the Indexes added to the completed set are those of the tasks
\* that succeeded, each Generation Record is the result of a succeeded task,
\* and the Failure Records carry, once for every failed task, the sentence at
\* sentences[index - start_index]; so what a batch ends with is settled by the
\* outcome of each task and not by the order of completion.
C12_ResultsKeyedByIndex ==
    orchestrated =>
        LET ok == {idx \in collected : ~future[idx].result.none}
            ko == {idx \in collected : future[idx].result.none}
            at(idx) == sentences[(idx - start_index) + 1]
        IN /\ \A idx \in DOMAIN task :
                /\ task[idx].index = idx
                /\ future[idx].index = idx
                /\ task[idx].sentence = at(idx)
           /\ completed_indexes = Loaded \cup ok
           /\ Len(results) = Cardinality(ok)
           /\ Range(results) = {future[idx].result : idx \in ok}
           /\ \A idx \in ok : future[idx].result.s = at(idx)
           /\ Len(fail_data) = Cardinality(ko)
           /\ \A x \in Range(sentences) \cup {fail_data[i].s : i \in 1..Len(fail_data)} :
                Cardinality({i \in 1..Len(fail_data) : fail_data[i].s = x}) =
                    Cardinality({idx \in ko : at(idx) = x})

\* A batch of two tasks on different sentences has returned whose futures
\* completed in the order opposite to their submission, both as failures.
C12_Witness ==
    /\ pc = "done"
    /\ orchestrated
    /\ Len(sentences) = 2
    /\ sentences[1] # sentences[2]
    /\ DOMAIN task = {start_index, start_index + 1}
    /\ fail_data = <<[s |-> sentences[2]], [s |-> sentences[1]]>>

\* A batch of two tasks has returned in which the task submitted second
\* succeeded and was collected before the first, which failed.
C12_WitnessMixed ==
    /\ pc = "done"
    /\ orchestrated
    /\ ~ignore_checkpoint
    /\ DOMAIN task = {0, 1}
    /\ sentences[1] # sentences[2]
    /\ future[0].result.none
    /\ completed_indexes = {1}
    /\ fail_data = <<[s |-> sentences[1]]>>

\* C14: the checkpoint file is written at most once in a run of the
\* orchestrator, and only after every dispatched task has resolved: while any
\* task is waiting or running no write has happened and the file is the one
\* the invocation found, and a write has happened only in a run that honours
\* the checkpoint, dispatched a task and has collected every future.
C14_CheckpointWrittenOnceAtEnd ==
    /\ checkpoint_writes <= 1
    /\ pc = "pool" => checkpoint_writes = 0 /\ checkpoint_file = before.checkpoint
    /\ checkpoint_file # before.checkpoint => checkpoint_writes = 1
    /\ checkpoint_writes = 1 =>
         /\ pc = "done"
         /\ orchestrated
         /\ ~ignore_checkpoint
         /\ DOMAIN task # {}
         /\ collected = DOMAIN task
         /\ \A idx \in DOMAIN task :
              task[idx].st = "returned" /\ future[idx].state = "finished"

\* A run of two tasks has ended and has written the checkpoint, once.
C14_Witness ==
    /\ pc = "done"
    /\ checkpoint_writes = 1
    /\ Cardinality(DOMAIN task) = 2
    /\ checkpoint_file # before.checkpoint

\* One task has been collected as a success while the other is still running,
\* and the checkpoint file has not been written.
C14_WitnessNoEarlyWrite ==
    /\ pc = "pool"
    /\ ~ignore_checkpoint
    /\ completed_indexes # Loaded
    /\ \E idx \in DOMAIN task : task[idx].st \in {"stage1", "stage2"}
    /\ checkpoint_writes = 0

\* C15: the completed set, results and the failure collection are mutated only
\* by the collecting loop, one future at a time: a step of a worker (a task
\* taken from the queue, a call of send_messages ending) changes its own task
\* and future and leaves the three collections as they are, and a step that
\* changes one of them during a batch is the loop body run on one finished
\* future that had not been collected, changing no task and no future.
C15_OnlyCollectorMutates ==
    [][pc = "pool" /\ pc' = "pool" =>
         /\ task' # task \/ future' # future \/ queue' # queue =>
              /\ completed_indexes' = completed_indexes
              /\ results' = results
              /\ fail_data' = fail_data
              /\ collected' = collected
              /\ \E idx \in DOMAIN task :
                   /\ task'[idx] # task[idx]
                   /\ \A j \in DOMAIN task \ {idx} :
                        task'[j] = task[j] /\ future'[j] = future[j]
         /\ (\/ completed_indexes' # completed_indexes
             \/ results' # results
             \/ fail_data' # fail_data) =>
              /\ task' = task /\ future' = future /\ queue' = queue
              /\ \E idx \in DOMAIN future \ collected :
                   /\ future[idx].state = "finished"
                   /\ collected' = collected \cup {idx}
      ]_vars

\* The collecting loop has recorded a success of this batch while another
\* worker is between the two round-trips of its Task Unit.
C15_Witness ==
    /\ pc = "pool"
    /\ results # <<>>
    /\ \E idx \in DOMAIN task : task[idx].st = "stage2"

\* C16: the step that ends a run which honours the checkpoint and dispatched
\* a task leaves on disk the Checkpoint Set that was on disk when the run
\* started, with exactly the Indexes of the tasks that succeeded in this run
\* added: the Index of a failed task is not added and no Index is removed;
\* and no step of any invocation, in any mode, takes an Index out of the
\* Checkpoint Set on disk.
C16_CheckpointGrowsBySuccesses ==
    [][/\ load_checkpoint(checkpoint_file) \subseteq load_checkpoint(checkpoint_file')
       /\ (pc = "pool" /\ pc' = "done" /\ ~ignore_checkpoint) =>
            /\ DOMAIN task # {}
            /\ checkpoint_file'.exists
            /\ load_checkpoint(checkpoint_file) = load_checkpoint(before.checkpoint)
            /\ load_checkpoint(checkpoint_file') =
                 load_checkpoint(checkpoint_file)
                    \cup {idx \in DOMAIN task : ~future[idx].result.none}
            /\ \A idx \in DOMAIN task :
                 future[idx].result.none => idx \notin load_checkpoint(checkpoint_file')
      ]_vars

\* A run has ended that found a non-empty Checkpoint Set and added the Index
\* of a task that succeeded in it.
C16_Witness ==
    /\ pc = "done"
    /\ orchestrated
    /\ ~ignore_checkpoint
    /\ load_checkpoint(before.checkpoint) # {}
    /\ \E idx \in DOMAIN task :
         /\ ~future[idx].result.none
         /\ idx \notin load_checkpoint(before.checkpoint)
         /\ idx \in load_checkpoint(checkpoint_file)

\* A run has ended that found a non-empty Checkpoint Set and whose only task
\* failed: the set on disk is the one it found.
C16_WitnessFailure ==
    /\ pc = "done"
    /\ orchestrated
    /\ ~ignore_checkpoint
    /\ load_checkpoint(before.checkpoint) # {}
    /\ DOMAIN task # {}
    /\ \A idx \in DOMAIN task : future[idx].result.none
    /\ checkpoint_writes = 1
    /\ load_checkpoint(checkpoint_file) = load_checkpoint(before.checkpoint)

\* C17: the second request of a Task Unit is sent on the conversation of the
\* first: the first request is the single user turn of the draft prompt for
\* the task's sentence, and the messages of the second request are that
\* sequence with one further user turn appended, the critique prompt, which
\* embeds the narrative text decoded from the first reply as it was received.
C17_SecondRequestSameConversation ==
    \A idx \in DOMAIN task :
        LET t == task[idx]
            first == <<user(prompt(t.sentence))>>
        IN /\ t.st = "queued" => t.messages = <<>>
           /\ (t.st = "stage1" \/ (t.st = "returned" /\ Len(t.replies) = 1)) =>
                t.messages = first
           /\ (t.st = "stage2" \/ Len(t.replies) = 2) =>
                /\ Good(t.replies[1])
                /\ Len(t.messages) = Len(first) + 1
                /\ SubSeq(t.messages, 1, Len(first)) = first
                /\ t.messages[Len(t.messages)] =
                     user(check_prompt(FieldOf(t.replies[1])))

\* A second request is pending whose critique prompt embeds the two-line
\* narrative text of the first reply.
C17_Witness ==
    \E idx \in DOMAIN task :
        /\ task[idx].st = "stage2"
        /\ Len(task[idx].messages) = 2
        /\ task[idx].messages[2].content.embeds = Text2
        /\ FieldOf(task[idx].replies[1]) = Text2

\* C18: an invocation of mode 2 that finds no Failure Table, or of mode 3 that
\* finds no cache file, ends with a message only: the orchestrator is not
\* called, no task is dispatched and so the Model Client is never called, and
\* the checkpoint, the Output Table, the Failure Table and the cache are the
\* ones the invocation found.
C18_MissingInputMessageOnly ==
    ((choice = "2" /\ ~before.fail.exists) \/ (choice = "3" /\ ~before.cache.exists)) =>
        /\ pc = "done"
        /\ ~orchestrated
        /\ to_process = <<>>
        /\ queue = <<>>
        /\ DOMAIN task = {}
        /\ DOMAIN future = {}
        /\ results = <<>> /\ fail_data = <<>>
        /\ checkpoint_writes = 0
        /\ checkpoint_file = before.checkpoint
        /\ output_file = before.output
        /\ fail_file = before.fail
        /\ cache_file = before.cache

\* A retry has been asked for after a run that left records, a checkpoint and
\* no Failure Table.
C18_Witness ==
    /\ choice = "2"
    /\ ~before.fail.exists
    /\ before.output.exists
    /\ before.checkpoint.exists
    /\ before.cache.exists

\* A resume has been asked for where no full run has written the cache.
C18_WitnessResume ==
    /\ choice = "3"
    /\ ~before.cache.exists
    /\ budget < MaxRuns - 1

\* C20: a resume that finds the cache of a full run gives every cached
\* sentence the Index it had in the full run (its position among the
\* sentences left by dropna, from 0), dispatches exactly the positions that
\* are not in the Checkpoint Set, and ends with the message only, without
\* calling the orchestrator, only when every sentence position of the cache
\* is in the Checkpoint Set: the test compares the size of the set with the
\* number of rows of the cache, rows without a sentence included.
C20_ResumeSameIndexes ==
    (choice = "3" /\ before.cache.exists) =>
        LET full == dropna(SelectSeq(source, LAMBDA r : r.w = WEIGHT))
            cached == dropna(before.cache.content)
            done == load_checkpoint(before.checkpoint)
            positions == {i - 1 : i \in 1..Len(cached)}
        IN /\ cached = full
           /\ cache_file = before.cache
           /\ orchestrated <=> Cardinality(done) < Len(before.cache.content)
           /\ IF orchestrated
              THEN /\ sentences = cached
                   /\ start_index = 0
                   /\ ~ignore_checkpoint
                   /\ {to_process[k].idx : k \in 1..Len(to_process)} = positions \ done
                   /\ DOMAIN task = positions \ done
                   /\ \A idx \in DOMAIN task : task[idx].sentence = full[idx + 1]
              ELSE /\ positions \subseteq done
                   /\ pc = "done"
                   /\ DOMAIN task = {}
                   /\ disk = <<before.checkpoint, before.cache, before.fail, before.output>>

\* A resume after a full run in which the first sentence succeeded and the
\* second failed has dispatched the second sentence, under Index 1, only.
C20_Witness ==
    /\ choice = "3"
    /\ orchestrated
    /\ Len(sentences) = 2
    /\ load_checkpoint(before.checkpoint) = {0}
    /\ DOMAIN task = {1}
    /\ task[1].sentence = sentences[2]

\* A resume has ended with the message only: every position is checkpointed.
C20_WitnessAllDone ==
    /\ choice = "3"
    /\ before.cache.exists
    /\ ~orchestrated
    /\ load_checkpoint(before.checkpoint) # {}

\* A resume has called the orchestrator although every sentence position is
\* checkpointed: a cache row without a sentence keeps the size test from
\* holding, and the orchestrator finds nothing to dispatch.
C20_WitnessRowWithoutSentence ==
    /\ choice = "3"
    /\ orchestrated
    /\ sentences # <<>>
    /\ Len(before.cache.content) > Len(sentences)
    /\ to_process = <<>>

\* ------------------------------------------- a batch larger than the pool
\* A dataset of more sentences than the pool has workers, processed by one
\* full run; the Model Client raises or returns the object with the field.
PoolDataset == [i \in 1..(MAX_WORKERS + PoolExtra) |-> [w |-> WEIGHT, s |-> "A"]]
PoolOutcomes == {Raised, Returned(<<LB, Pair(FIELD, Text1), RB>>)}

PoolInit ==
    /\ source = PoolDataset
    /\ budget = 1
    /\ checkpoint_file = NoFile
    /\ cache_file = NoFile
    /\ fail_file = NoFile
    /\ output_file = NoFile
    /\ before = [checkpoint |-> NoFile, cache |-> NoFile, fail |-> NoFile,
                 output |-> NoFile]
    /\ checkpoint_writes = 0
    /\ pc = "idle"
    /\ choice = ""
    /\ EmptyRun
    /\ NoFn

PoolStage1Return ==
    /\ pc = "pool"
    /\ \E idx \in DOMAIN task, outcome \in PoolOutcomes :
         task[idx].st = "stage1" /\ Step(idx, outcome)

PoolStage2Return ==
    /\ pc = "pool"
    /\ \E idx \in DOMAIN task, outcome \in PoolOutcomes :
         task[idx].st = "stage2" /\ Step(idx, outcome)

PoolNext ==
    \/ Main1
    \/ StartTask
    \/ PoolStage1Return
    \/ PoolStage2Return
    \/ Collect
    \/ Finish

PoolSpec == PoolInit /\ [][PoolNext]_vars

\* C13: at every moment at most MAX_WORKERS Task Units are executing, a Task
\* Unit between its two round-trips counting as executing; a submitted task
\* waits in the queue until a worker has run its Task Unit to the end, and
\* the tasks that are neither waiting nor executing have returned.
C13_AtMostMaxWorkers ==
    LET executing == {idx \in DOMAIN task : task[idx].st \in {"stage1", "stage2"}}
        waiting == {idx \in DOMAIN task : task[idx].st = "queued"}
    IN /\ Cardinality(executing) <= MAX_WORKERS
       /\ waiting = Range(queue)
       /\ \A idx \in DOMAIN task \ (executing \cup waiting) :
            /\ task[idx].st = "returned"
            /\ future[idx].state = "finished"
       /\ \A idx \in executing \cup waiting : future[idx].state = "pending"

\* Every worker is busy, one of them between the two round-trips of its Task
\* Unit, and a task is waiting for a worker.
C13_Witness ==
    /\ pc = "pool"
    /\ Cardinality({idx \in DOMAIN task : task[idx].st \in {"stage1", "stage2"}}) =
          MAX_WORKERS
    /\ \E idx \in DOMAIN task : task[idx].st = "stage2"
    /\ queue # <<>>

\* The task that had to wait has been taken by a worker that finished another.
C13_WitnessTaken ==
    /\ pc = "pool"
    /\ queue = <<>>
    /\ Cardinality(DOMAIN task) > MAX_WORKERS
    /\ \E idx \in DOMAIN task : task[idx].st = "stage1"
    /\ \E idx \in DOMAIN task : task[idx].st = "returned"

\* ------------------------------------------ full run, retry, full run again
\* A dataset of one sentence and an operator who invokes main RetryRuns
\* times, in any modes.
RetryDataset == <<[w |-> WEIGHT, s |-> "A"]>>

RetryInit ==
    /\ source = RetryDataset
    /\ budget = RetryRuns
    /\ checkpoint_file = NoFile
    /\ cache_file = NoFile
    /\ fail_file = NoFile
    /\ output_file = NoFile
    /\ before = [checkpoint |-> NoFile, cache |-> NoFile, fail |-> NoFile,
                 output |-> NoFile]
    /\ checkpoint_writes = 0
    /\ pc = "idle"
    /\ choice = ""
    /\ EmptyRun
    /\ NoFn

RetrySpec == RetryInit /\ [][Next]_vars

\* C19: over any sequence of invocations of modes 1, 2 and 3 on the same
\* dataset the Output Table holds at most one Generation Record for a sentence
\* position, and a full run or a resume does not submit a sentence position
\* for which the Output Table already holds a record, a retry run's record
\* included (positions are counted by their sentence: the records of a
\* sentence and the tasks dispatched on it never outnumber its positions).
C19_AtMostOneRecordPerSentence ==
    LET sents == dropna(SelectSeq(source, LAMBDA r : r.w = WEIGHT))
        records(file, x) == {k \in 1..Len(file.content) : file.content[k].s = x}
    IN /\ \A i \in 1..Len(sents) :
            Cardinality(records(output_file, sents[i])) <=
                Cardinality({j \in 1..Len(sents) : sents[j] = sents[i]})
       /\ (orchestrated /\ choice \in {"1", "3"}) =>
            \A i \in 1..Len(sents) :
                Cardinality(records(before.output, sents[i]))
                  + Cardinality({idx \in DOMAIN task : task[idx].sentence = sents[i]}) <=
                    Cardinality({j \in 1..Len(sents) : sents[j] = sents[i]})

\* The Output Table holds two Generation Records for the one sentence.
C19_Duplicate ==
    /\ Len(output_file.content) = 2
    /\ output_file.content[1].s = output_file.content[2].s

\* ------------------------------------------- the Checkpoint Store on its own
\* The sets of Indexes the round trip is run on.
IndexSets == {S \in SUBSET (0..MaxIndex) : Cardinality(S) <= MaxSetSize}

Idle ==
    /\ source = <<>>
    /\ budget = 0
    /\ cache_file = NoFile
    /\ fail_file = NoFile
    /\ output_file = NoFile
    /\ before = [checkpoint |-> NoFile, cache |-> NoFile, fail |-> NoFile,
                 output |-> NoFile]
    /\ checkpoint_writes = 0
    /\ pc = "idle"
    /\ choice = ""
    /\ EmptyRun

CheckpointInit ==
    /\ Idle
    /\ checkpoint_file = NoFile
    /\ fn_pc = "start"
    /\ fn_arg \in IndexSets
    /\ fn_ret = {}

\* load_checkpoint() with no checkpoint file on disk.
LoadAbsent ==
    /\ fn_pc = "start"
    /\ fn_ret' = load_checkpoint(checkpoint_file)
    /\ fn_pc' = "loaded_absent"
    /\ UNCHANGED <<source, budget, disk, before, checkpoint_writes, pc, choice, run, fn_arg>>

\* save_checkpoint(fn_arg), the set iterated in any order.
Save ==
    /\ fn_pc \in {"start", "loaded_absent"}
    /\ \E order \in Orderings(fn_arg) : checkpoint_file' = save_checkpoint(order)
    /\ checkpoint_writes' = checkpoint_writes + 1
    /\ fn_pc' = "saved"
    /\ UNCHANGED <<source, budget, cache_file, fail_file, output_file, before, pc,
                   choice, run, fn_arg, fn_ret>>

\* load_checkpoint() after the save.
Load ==
    /\ fn_pc = "saved"
    /\ fn_ret' = load_checkpoint(checkpoint_file)
    /\ fn_pc' = "loaded"
    /\ UNCHANGED <<source, budget, disk, before, checkpoint_writes, pc, choice, run, fn_arg>>

CheckpointNext ==
    \/ LoadAbsent
    \/ Save
    \/ Load

CheckpointSpec == CheckpointInit /\ [][CheckpointNext]_vars

\* C8: save_checkpoint(S) followed by load_checkpoint() returns exactly S, for
\* every set S of non-negative integers, the empty set included; and
\* load_checkpoint() returns the empty set when the checkpoint file is absent.
C8_CheckpointRoundTrip ==
    /\ fn_pc = "loaded" => fn_ret = fn_arg
    /\ fn_pc = "loaded_absent" => fn_ret = {}

\* A set of MaxSetSize Indexes, one of them of two digits, came back.
C8_Witness ==
    /\ fn_pc = "loaded"
    /\ Cardinality(fn_arg) = MaxSetSize
    /\ \E i \in fn_arg : i >= 10
    /\ fn_ret = fn_arg

\* --------------------------------------------------- clean_value on its own
EscapeInit ==
    /\ Idle
    /\ checkpoint_file = NoFile
    /\ fn_pc = "start"
    /\ fn_arg \in {Str(s) : s \in SeqsUpTo(TextChars, MaxTextLen)} \cup {Num(<<"7">>)}
    /\ fn_ret = NoVal

\* clean_value(fn_arg), as process_sentence applies it to the stage-2 text.
Clean ==
    /\ fn_pc = "start"
    /\ fn_ret' = clean_value(fn_arg)
    /\ fn_pc' = "cleaned"
    /\ UNCHANGED <<source, budget, disk, before, checkpoint_writes, pc, choice, run, fn_arg>>

\* The reader of the Output Table reverses the escape.
Reverse ==
    /\ fn_pc = "cleaned"
    /\ fn_ret' = unescape(fn_ret)
    /\ fn_pc' = "reversed"
    /\ UNCHANGED <<source, budget, disk, before, checkpoint_writes, pc, choice, run, fn_arg>>

EscapeNext ==
    \/ Clean
    \/ Reverse

EscapeSpec == EscapeInit /\ [][EscapeNext]_vars

\* C9: for every narrative text that contains literal newlines, the cleaned
\* text contains no literal newline, and reversing the escape (backslash-n
\* back to a newline) reproduces the original text exactly.
C9_EscapingLaw ==
    HasNewline(fn_arg) =>
        /\ fn_pc = "cleaned" => ~HasNewline(fn_ret)
        /\ fn_pc = "reversed" => fn_ret = fn_arg

\* C9, the half of the law that holds of clean_value: no literal newline is
\* left in the cleaned text.
C9_NoNewlineLeft == fn_pc = "cleaned" => ~HasNewline(fn_ret)

====
